---- MODULE Spec2Model ----
(***************************************************************************)
(* Model of gbmgeometry/spacecraft/fermi.py: class Fermi, the spacecraft   *)
(* body (an ordered mapping of components), the per-detector ray lists,    *)
(* add_ray and compute_intersections.                                      *)
(*                                                                         *)
(* An OrderedDict is modelled as a sequence of <<key, value>> pairs, so    *)
(* that the insertion order of the keys is part of the value.              *)
(* The geometry classes (LAT, radiators, solar panels, Ray, GBM) live in   *)
(* modules outside fermi.py; they are modelled by axis-aligned rectangles  *)
(* over integer coordinates following the component contract.              *)
(***************************************************************************)
EXTENDS Integers, Sequences, FiniteSets, TLC

VARIABLES spacecraft_components, rays, intersection_points, added, call

vars == <<spacecraft_components, rays, intersection_points, added, call>>

(* ---------------------------- bounds ----------------------------------- *)

\* number of add_ray calls explored on one instance
MaxRays == 2

\* number of detectors of the detector set that are modelled
NumDet == 2

(* ------------------------- OrderedDict --------------------------------- *)

Keys(od) == [i \in 1..Len(od) |-> od[i][1]]

KeySet(od) == {od[i][1] : i \in 1..Len(od)}

HasKey(od, k) == \E i \in 1..Len(od) : od[i][1] = k

Get(od, k) == od[CHOOSE i \in 1..Len(od) : od[i][1] = k][2]

Put(od, k, v) ==
  IF HasKey(od, k)
  THEN [i \in 1..Len(od) |-> IF od[i][1] = k THEN <<k, v>> ELSE od[i]]
  ELSE Append(od, <<k, v>>)

(* --------------------------- detectors --------------------------------- *)

\* the detector names of GBM, in the order of gbm.detectors
DetNames == <<"n0", "n1", "n2", "n3", "n4", "n5", "n6", "n7", "n8", "n9",
              "na", "nb", "b0", "b1">>

\* self._gbm.detectors: name -> detector (its mount point in the body frame)
detectors_of_gbm ==
  [i \in 1..NumDet |-> <<DetNames[i], [name |-> DetNames[i], mount_point |-> <<i - 1, 0, 0>>]>>]

\* a name that is not a detector
UnknownName == "zz"

(* ---------------------------- geometry --------------------------------- *)

NoIntersection == [plane |-> "None", point |-> <<0, 0, 0>>, distance |-> 0]

\* a bounded plane orthogonal to `axis` at coordinate `offset`
Surface(plane, axis, offset, lo, hi) ==
  [plane |-> plane, axis |-> axis, offset |-> offset, lo |-> lo, hi |-> hi]

\* a component: its name, its surfaces and the result of its last intersect_ray
Component(name, surfaces) ==
  [name |-> name, surfaces |-> surfaces, intersection |-> NoIntersection]

LAT == Component("LAT", <<Surface("z-", 3, 4, <<-1, -1, 4>>, <<1, 1, 4>>),
                          Surface("z+", 3, 8, <<-1, -1, 8>>, <<1, 1, 8>>)>>)

LATRadiatorMinus ==
  Component("LATRadiatorMinus", <<Surface("x-", 1, -3, <<-3, -1, -1>>, <<-3, 1, 1>>)>>)

LATRadiatorPlus ==
  Component("LATRadiatorPlus", <<Surface("x+", 1, 3, <<3, -1, -1>>, <<3, 1, 1>>)>>)

SolarPanelPlus ==
  Component("SolarPanelPlus", <<Surface("z-", 3, 2, <<-1, -1, 2>>, <<0, 1, 2>>)>>)

SolarPanelMinus ==
  Component("SolarPanelMinus", <<Surface("z-", 3, 6, <<1, -1, 6>>, <<2, 1, 6>>)>>)

\* Ray(det, ray_coordinate, probability, color)
Ray(det, ray_coordinate, probability, color) ==
  [detector |-> det.name, origin |-> det.mount_point, direction |-> ray_coordinate,
   probability |-> probability, color |-> color]

\* distance along the ray at which it crosses the plane of s (0: it does not)
SurfaceDistance(s, ray) ==
  LET d == ray.direction[s.axis]
      t == (s.offset - ray.origin[s.axis]) * d
  IN IF d # 0 /\ t > 0 THEN t ELSE 0

SurfacePoint(s, ray) ==
  LET t == SurfaceDistance(s, ray)
  IN [j \in 1..3 |-> ray.origin[j] + t * ray.direction[j]]

SurfaceHit(s, ray) ==
  /\ SurfaceDistance(s, ray) > 0
  /\ \A j \in 1..3 : LET p == SurfacePoint(s, ray)[j] IN s.lo[j] <= p /\ p <= s.hi[j]

\* the nearest struck surface of the component, or no intersection
Nearest(surfaces, ray) ==
  LET hits == {k \in 1..Len(surfaces) : SurfaceHit(surfaces[k], ray)}
  IN IF hits = {} THEN NoIntersection
     ELSE LET k == CHOOSE h \in hits : \A o \in hits :
                     SurfaceDistance(surfaces[h], ray) <= SurfaceDistance(surfaces[o], ray)
          IN [plane |-> surfaces[k].plane,
              point |-> SurfacePoint(surfaces[k], ray),
              distance |-> SurfaceDistance(surfaces[k], ray)]

\* component.intersect_ray(ray): the component keeps the result in .intersection
intersect_ray(component, ray) ==
  [component EXCEPT !.intersection = Nearest(component.surfaces, ray)]

(* --------------------------- Fermi.__init__ ---------------------------- *)

\* self._spacecraft_components, in the order the constructor attaches them
InitComponents ==
  << <<LAT.name, LAT>>,
     <<LATRadiatorMinus.name, LATRadiatorMinus>>,
     <<LATRadiatorPlus.name, LATRadiatorPlus>>,
     <<SolarPanelPlus.name, SolarPanelPlus>>,
     <<SolarPanelMinus.name, SolarPanelMinus>> >>

\* for name in self._gbm.detectors.iterkeys(): self._rays[name] = []
InitRays == [i \in 1..Len(detectors_of_gbm) |-> <<detectors_of_gbm[i][1], <<>>>>]

\* self._intersection_points = None
None == [is_none |-> TRUE, items |-> <<>>]

Some(od) == [is_none |-> FALSE, items |-> od]

NoArg == [ray_coordinate |-> <<0, 0, 0>>, probability |-> "None", color |-> ""]

Call(op, arg, dets, status, error, value, tested) ==
  [op |-> op, arg |-> arg, detectors |-> dets, status |-> status, error |-> error,
   value |-> value, tested |-> tested]

Init ==
  /\ spacecraft_components = InitComponents
  /\ rays = InitRays
  /\ intersection_points = None
  /\ added = <<>>
  /\ call = Call("__init__", NoArg, {}, "returned", "", <<>>, 0)

(* ---------------------------- Fermi.add_ray ---------------------------- *)

RayCoordinates == {<<0, 0, 1>>, <<1, 0, 0>>, <<0, 1, 0>>}

\* the defaults of add_ray (probability=None, color='#29FC5C') and an explicit pair
Weights == {[probability |-> "None", color |-> "#29FC5C"],
            [probability |-> "0.5", color |-> "r"]}

\* variant: self._rays[name].insert(0, ray)
AppendRay_Prepend(rs, name, det, ray_coordinate, probability, color) ==
  Put(rs, name, <<Ray(det, ray_coordinate, probability, color)>> \o Get(rs, name))

\* variant: self._rays[name] = [ray]
AppendRay_Replace(rs, name, det, ray_coordinate, probability, color) ==
  Put(rs, name, <<Ray(det, ray_coordinate, probability, color)>>)

\* self._rays[name].append(Ray(det, ray_coordinate, probability, color))
AppendRay(rs, name, det, ray_coordinate, probability, color) ==
  Put(rs, name, Append(Get(rs, name), Ray(det, ray_coordinate, probability, color)))

RECURSIVE add_ray_loop(_, _, _, _, _)
add_ray_loop(rs, k, ray_coordinate, probability, color) ==
  IF k > Len(detectors_of_gbm) THEN rs
  ELSE add_ray_loop(AppendRay(rs, detectors_of_gbm[k][1], detectors_of_gbm[k][2],
                              ray_coordinate, probability, color),
                    k + 1, ray_coordinate, probability, color)

add_ray(ray_coordinate, probability, color) ==
  /\ Len(added) < MaxRays
  /\ rays' = add_ray_loop(rays, 1, ray_coordinate, probability, color)
  /\ added' = Append(added, [ray_coordinate |-> ray_coordinate,
                             probability |-> probability, color |-> color])
  /\ call' = Call("add_ray", [ray_coordinate |-> ray_coordinate,
                              probability |-> probability, color |-> color],
                  {}, "returned", "", <<>>, 0)
  /\ UNCHANGED <<spacecraft_components, intersection_points>>

(* --------------------- Fermi.compute_intersections --------------------- *)

EmptyCollisionInfo == [surface |-> <<>>, point |-> <<>>, distance |-> <<>>]

\* variant: component.intersection is read before component.intersect_ray(ray)
ComponentStep_Stale(acc, name, component, det_name, ray) ==
  LET tested == intersect_ray(component, ray)
      plane == component.intersection.plane
      point == component.intersection.point
      distance == component.intersection.distance
      a1 == [acc EXCEPT !.components = Put(@, name, tested), !.tested = @ + 1]
  IN IF plane # "None"
     THEN [a1 EXCEPT
             !.collision_info =
                [surface |-> Append(@.surface, name \o " " \o plane),
                 point |-> Append(@.point, point),
                 distance |-> Append(@.distance, distance)],
             !.intersection_points =
                Put(@, det_name, Append(Get(@, det_name), point))]
     ELSE a1

\* variant: only the first component a ray strikes is recorded
ComponentStep_FirstHitOnly(acc, name, component, det_name, ray) ==
  LET tested == intersect_ray(component, ray)
      plane == tested.intersection.plane
      point == tested.intersection.point
      distance == tested.intersection.distance
      a1 == [acc EXCEPT !.components = Put(@, name, tested), !.tested = @ + 1]
  IN IF plane # "None" /\ acc.collision_info.surface = <<>>
     THEN [a1 EXCEPT
             !.collision_info =
                [surface |-> Append(@.surface, name \o " " \o plane),
                 point |-> Append(@.point, point),
                 distance |-> Append(@.distance, distance)],
             !.intersection_points =
                Put(@, det_name, Append(Get(@, det_name), point))]
     ELSE a1

\* variant: the distance is appended outside the test of plane
ComponentStep_DistanceAlways(acc, name, component, det_name, ray) ==
  LET tested == intersect_ray(component, ray)
      plane == tested.intersection.plane
      point == tested.intersection.point
      distance == tested.intersection.distance
      a1 == [acc EXCEPT !.components = Put(@, name, tested), !.tested = @ + 1,
                        !.collision_info.distance = Append(@, distance)]
  IN IF plane # "None"
     THEN [a1 EXCEPT
             !.collision_info.surface = Append(@, name \o " " \o plane),
             !.collision_info.point = Append(@, point),
             !.intersection_points =
                Put(@, det_name, Append(Get(@, det_name), point))]
     ELSE a1

\* variant: self._intersection_points[det_name] = [point]
ComponentStep_PointReplace(acc, name, component, det_name, ray) ==
  LET tested == intersect_ray(component, ray)
      plane == tested.intersection.plane
      point == tested.intersection.point
      distance == tested.intersection.distance
      a1 == [acc EXCEPT !.components = Put(@, name, tested), !.tested = @ + 1]
  IN IF plane # "None"
     THEN [a1 EXCEPT
             !.collision_info =
                [surface |-> Append(@.surface, name \o " " \o plane),
                 point |-> Append(@.point, point),
                 distance |-> Append(@.distance, distance)],
             !.intersection_points = Put(@, det_name, <<point>>)]
     ELSE a1

\* lines 106-115: one component tested against one ray
ComponentStep(acc, name, component, det_name, ray) ==
  LET tested == intersect_ray(component, ray)
      plane == tested.intersection.plane
      point == tested.intersection.point
      distance == tested.intersection.distance
      a1 == [acc EXCEPT !.components = Put(@, name, tested), !.tested = @ + 1]
  IN IF plane # "None"
     THEN [a1 EXCEPT
             !.collision_info =
                [surface |-> Append(@.surface, name \o " " \o plane),
                 point |-> Append(@.point, point),
                 distance |-> Append(@.distance, distance)],
             !.intersection_points =
                Put(@, det_name, Append(Get(@, det_name), point))]
     ELSE a1

\* lines 102-115: for name, component in self._spacecraft_components.iteritems()
RECURSIVE ComponentLoop(_, _, _, _)
ComponentLoop(acc, det_name, ray, k) ==
  IF k > Len(acc.components) THEN acc
  ELSE ComponentLoop(ComponentStep(acc, acc.components[k][1], acc.components[k][2],
                                   det_name, ray),
                     det_name, ray, k + 1)

\* variant: a ray without hits is left out of ray_dict
RecordRay_SkipEmpty(acc, i) ==
  IF acc.collision_info.surface = <<>> THEN acc
  ELSE [acc EXCEPT !.ray_dict = Put(@, i, acc.collision_info)]

\* line 117: ray_dict[i] = collision_info
RecordRay(acc, i) == [acc EXCEPT !.ray_dict = Put(@, i, acc.collision_info)]

\* lines 92-117: for i, ray in enumerate(det)
RECURSIVE RayLoop(_, _, _, _)
RayLoop(acc, det_name, det, i) ==
  IF i >= Len(det) THEN acc
  ELSE RayLoop(RecordRay(ComponentLoop([acc EXCEPT !.collision_info = EmptyCollisionInfo],
                                       det_name, det[i + 1], 1), i),
               det_name, det, i + 1)

\* line 119: all_intersections[det_name] = ray_dict
RecordDetector(acc, det_name) ==
  [acc EXCEPT !.all_intersections = Put(@, det_name, acc.ray_dict)]

\* lines 85-119: the body of the loop over self._rays
DetectorStep(acc, det_name, det) ==
  LET a1 == [acc EXCEPT !.intersection_points = Put(@, det_name, <<>>),
                        !.ray_dict = <<>>]
  IN IF ~acc.dets_bound
     THEN [a1 EXCEPT !.error = "UnboundLocalError"]
     ELSE IF det_name \in acc.dets
          THEN RecordDetector(RayLoop(a1, det_name, det, 0), det_name)
          ELSE a1

\* line 83: for det_name, det in self._rays.iteritems(); an exception ends the call
RECURSIVE DetectorLoop(_, _, _)
DetectorLoop(acc, rs, k) ==
  IF k > Len(rs) \/ acc.error # "" THEN acc
  ELSE DetectorLoop(DetectorStep(acc, rs[k][1], rs[k][2]), rs, k + 1)

\* lines 74-81: the locals before the loop; dets is bound only for an empty selection
Locals(rs, components, detectors) ==
  [intersection_points |-> <<>>,
   all_intersections |-> <<>>,
   dets_bound |-> Cardinality(detectors) = 0,
   dets |-> IF Cardinality(detectors) = 0 THEN KeySet(rs) ELSE {},
   ray_dict |-> <<>>,
   collision_info |-> EmptyCollisionInfo,
   components |-> components,
   tested |-> 0,
   error |-> ""]

\* the whole call, as a function of the instance and the selection
ComputeIntersections(rs, components, detectors) ==
  DetectorLoop(Locals(rs, components, detectors), rs, 1)

Selections == SUBSET (KeySet(detectors_of_gbm) \cup {UnknownName})

compute_intersections(detectors) ==
  LET r == ComputeIntersections(rays, spacecraft_components, detectors)
  IN /\ intersection_points' = Some(r.intersection_points)
     /\ spacecraft_components' = r.components
     /\ call' = IF r.error = ""
                THEN Call("compute_intersections", NoArg, detectors, "returned", "",
                          r.all_intersections, r.tested)
                ELSE Call("compute_intersections", NoArg, detectors, "raised", r.error,
                          <<>>, r.tested)
     /\ UNCHANGED <<rays, added>>

Next ==
  \/ \E c \in RayCoordinates, w \in Weights : add_ray(c, w.probability, w.color)
  \/ \E d \in Selections : compute_intersections(d)

Spec == Init /\ [][Next]_vars

(* ------------------------------ claims --------------------------------- *)

Computed == call.op = "compute_intersections"

Returned == Computed /\ call.status = "returned"

Raised == Computed /\ call.status = "raised"

\* what a call with an empty selection returns in the current state
AllDetectors == ComputeIntersections(rays, spacecraft_components, {}).all_intersections

InSelection(name) == name \in call.detectors

\* C1: a call with a non-empty selection of known detector names returns a
\* mapping whose keys are exactly the selected detectors, in insertion order,
\* each mapped to the records an empty-selection call returns for it.
C1_SelectionFilters ==
  (Computed /\ call.detectors # {} /\ call.detectors \subseteq KeySet(rays)) =>
     /\ call.status = "returned"
     /\ Keys(call.value) = SelectSeq(Keys(rays), InSelection)
     /\ \A d \in call.detectors : Get(call.value, d) = Get(AllDetectors, d)

\* C2: a call whose selection holds a name that is not a detector is rejected
\* with an invalid-selection error, no ray is tested and nothing is returned.
C2_UnknownNameRejected ==
  (Computed /\ ~(call.detectors \subseteq KeySet(rays))) =>
     /\ call.status = "raised"
     /\ call.error = "InvalidSelection"
     /\ call.tested = 0
     /\ call.value = <<>>

\* C3: every call of compute_intersections either returns and replaces the
\* intersection-point mapping, or raises and leaves the intersection-point
\* mapping and the rest of the instance as they were.
C3_NoPartialFailure ==
  [][call'.op = "compute_intersections" =>
       \/ /\ call'.status = "returned"
          /\ ~intersection_points'.is_none
          /\ KeySet(intersection_points'.items) = KeySet(rays)
       \/ /\ call'.status = "raised"
          /\ intersection_points' = intersection_points
          /\ UNCHANGED <<spacecraft_components, rays, added>>]_vars

\* C4: after k add_ray calls every detector holds exactly k rays, and the i-th
\* ray of a detector is the ray of that detector built from the direction,
\* probability and color of the i-th add_ray call.
C4_OneRayPerDetectorPerCall ==
  /\ Keys(rays) = Keys(detectors_of_gbm)
  /\ \A k \in 1..Len(rays) :
        /\ Len(rays[k][2]) = Len(added)
        /\ \A i \in 1..Len(added) :
              rays[k][2][i] = Ray(detectors_of_gbm[k][2], added[i].ray_coordinate,
                                  added[i].probability, added[i].color)

C4_Witness ==
  /\ Len(added) = 2
  /\ added[1] # added[2]
  /\ call.op = "add_ray"
  /\ \A k \in 1..Len(rays) : Len(rays[k][2]) = 2

IsPrefix(s, t) == Len(s) <= Len(t) /\ \A i \in 1..Len(s) : s[i] = t[i]

\* C5: no step removes, reorders or replaces a ray of any detector, and
\* compute_intersections leaves the ray lists and the names and order of the
\* component mapping unchanged.
C5_RaysAppendOnly ==
  [][/\ Keys(rays') = Keys(rays)
     /\ \A k \in 1..Len(rays) : IsPrefix(rays[k][2], rays'[k][2])
     /\ Keys(spacecraft_components') = Keys(spacecraft_components)
     /\ call'.op = "compute_intersections" => rays' = rays]_vars

C5_Witness ==
  /\ call.op = "add_ray"
  /\ Len(added) = 2
  /\ ~intersection_points.is_none
  /\ \E k \in 1..Len(intersection_points.items) : intersection_points.items[k][2] # <<>>

C7_Idempotent ==
  Computed =>
     LET again == ComputeIntersections(rays, spacecraft_components, call.detectors)
     IN /\ (again.error = "") = (call.status = "returned")
        /\ again.error = call.error
        /\ call.status = "returned" => again.all_intersections = call.value
        /\ Some(again.intersection_points) = intersection_points

C7_Witness ==
  /\ Returned
  /\ \A k \in 1..Len(intersection_points.items) : Len(intersection_points.items[k][2]) >= 2

Permute(seq, p) == [i \in 1..Len(seq) |-> seq[p[i]]]

HitSet(info) ==
  {<<info.surface[j], info.point[j], info.distance[j]>> : j \in 1..Len(info.surface)}

\* C8: under every order of the components, every ray of every detector is
\* reported to strike the same set of surfaces.
C8_ComponentOrderInvariant ==
  Returned =>
     \A p \in Permutations(1..Len(spacecraft_components)) :
        LET other == ComputeIntersections(rays, Permute(spacecraft_components, p),
                                          call.detectors).all_intersections
        IN /\ Keys(other) = Keys(call.value)
           /\ \A k \in 1..Len(other) :
                 /\ Keys(other[k][2]) = Keys(call.value[k][2])
                 /\ \A i \in 1..Len(other[k][2]) :
                       HitSet(other[k][2][i][2]) = HitSet(call.value[k][2][i][2])

C8_Witness ==
  /\ Returned
  /\ \E k \in 1..Len(call.value) : \E i \in 1..Len(call.value[k][2]) :
        Cardinality(HitSet(call.value[k][2][i][2])) >= 2

\* the indices of the components a ray strikes, in the order of the body
RECURSIVE Struck(_, _, _)
Struck(components, ray, k) ==
  IF k > Len(components) THEN <<>>
  ELSE (IF Nearest(components[k][2].surfaces, ray).plane # "None" THEN <<k>> ELSE <<>>)
       \o Struck(components, ray, k + 1)

\* C9: the hit record of a ray has one entry per component the ray strikes, in
\* the order of the body; its three lists have the same length and their k-th
\* entries are the label (component name, then plane), the point and the
\* distance of the same hit.
C9_HitRecordPerStruckComponent ==
  Returned =>
     \A k \in 1..Len(call.value) : \A i \in 1..Len(call.value[k][2]) :
        LET info == call.value[k][2][i][2]
            ray == Get(rays, call.value[k][1])[i]
            hit == Struck(spacecraft_components, ray, 1)
            at(j) == Nearest(spacecraft_components[hit[j]][2].surfaces, ray)
        IN /\ Len(info.surface) = Len(hit)
           /\ Len(info.point) = Len(hit)
           /\ Len(info.distance) = Len(hit)
           /\ \A j \in 1..Len(hit) :
                 /\ info.surface[j] = spacecraft_components[hit[j]][1] \o " " \o at(j).plane
                 /\ info.point[j] = at(j).point
                 /\ info.distance[j] = at(j).distance

C9_Witness ==
  /\ Returned
  /\ \E k \in 1..Len(call.value) : \E i \in 1..Len(call.value[k][2]) :
        LET info == call.value[k][2][i][2]
        IN /\ Len(info.surface) = 2
           /\ info.surface[1] = "LAT z-"
           /\ info.distance[1] > info.distance[2]

\* the 'point' entries of the rays of one detector, in ray order
RECURSIVE Points(_, _)
Points(ray_dict, i) ==
  IF i > Len(ray_dict) THEN <<>> ELSE ray_dict[i][2].point \o Points(ray_dict, i + 1)

\* C10: after a call that returns, the intersection-point mapping has a key
\* for every detector, whose list is the concatenation of the 'point' entries
\* of that detector's hit records, and is empty for a detector not selected.
C10_FlattenedPoints ==
  Returned =>
     /\ ~intersection_points.is_none
     /\ Keys(intersection_points.items) = Keys(detectors_of_gbm)
     /\ \A k \in 1..Len(intersection_points.items) :
           LET d == intersection_points.items[k][1]
           IN intersection_points.items[k][2] =
                 IF HasKey(call.value, d) THEN Points(Get(call.value, d), 1) ELSE <<>>

C10_Witness ==
  /\ Returned
  /\ \E k \in 1..Len(call.value) :
        /\ Len(call.value[k][2]) = 2
        /\ call.value[k][2][1][2].point # <<>>
        /\ call.value[k][2][2][2].point # <<>>
        /\ call.value[k][2][1][2].point # call.value[k][2][2][2].point

====
